---- MODULE Spec2Model ----
(***************************************************************************)
(* Client-side session and conversation synchronisation of the enterprise  *)
(* chat application: AuthProvider (login / logout / checkAuth) and the     *)
(* Chat view (fetchMessages on a 5 s interval, handleSend, handleLogout),  *)
(* running against the remote chat service.                                *)
(*                                                                         *)
(* Every await in the source is a suspension point: the part of a handler  *)
(* before the await is one action (it puts a request in flight), the part  *)
(* after it is one action per outcome of the request.  Each continuation   *)
(* works on the values its closure captured when the handler was called.   *)
(***************************************************************************)
EXTENDS Integers, Sequences, FiniteSets, Bags, TLC

\* ------------------------------------------------------------------ bounds
MaxInFlight == 2   \* HTTP requests the page has in flight
MaxLog      == 1   \* messages the service stores

\* ----------------------------------------------------------------- domains
Null      == "null"
Usernames == {"alice", "bob"}
Passwords == {"pw", "bad"}
Tokens    == {"t1", "t2"}
Text      == {"", " ", "hi"}

\* String.prototype.trim on the texts of the model.
Trim(s) == IF s = " " THEN "" ELSE s

\* The remote service: the token it issues to a user, the identity behind a
\* token, and the credentials it accepts.
IssuedToken(u)     == IF u = "alice" THEN "t1" ELSE "t2"
Identity(t)        == IF t = "t1" THEN "alice" ELSE "bob"
CredentialsOk(u, p) == p = "pw"

VARIABLES
  localStorageToken,  \* localStorage 'token'
  isAuthenticated,    \* AuthProvider state
  user,               \* AuthProvider state: the identity (its username) or Null
  token,              \* AuthProvider state
  loginResult,        \* what the last settled login() returned: "none", "true", "false"
  loginReqs,          \* POST /token in flight
  checkReqs,          \* GET /users/me in flight
  validTokens,        \* service: the tokens it accepts
  serverLog,          \* service: the stored messages, append-only
  chatMounted,        \* a Chat component is mounted
  timerArmed,         \* its setInterval is armed
  pollToken,          \* the token closed over by the interval's fetchMessages
  messages,           \* Chat state
  newMessage,         \* Chat state
  fetchReqs,          \* GET /messages/ in flight
  sendReqs            \* POST /messages/ in flight

authVars == <<localStorageToken, isAuthenticated, user, token>>
chatVars == <<chatMounted, timerArmed, pollToken, messages, newMessage>>
vars == <<localStorageToken, isAuthenticated, user, token, loginResult, loginReqs,
          checkReqs, validTokens, serverLog, chatMounted, timerArmed, pollToken,
          messages, newMessage, fetchReqs, sendReqs>>

\* ------------------------------------------------------------ bag helpers
Put(b, e)  == b (+) SetToBag({e})
Take(b, e) == b (-) SetToBag({e})

\* The requests the page has in flight.
InFlight ==
  BagCardinality(loginReqs) + BagCardinality(checkReqs)
    + BagCardinality(fetchReqs) + BagCardinality(sendReqs)

Init ==
  /\ localStorageToken = Null
  /\ isAuthenticated = FALSE
  /\ user = Null
  /\ token = Null
  /\ loginResult = "none"
  /\ loginReqs = EmptyBag
  /\ checkReqs = EmptyBag
  /\ validTokens = {}
  /\ serverLog = <<>>
  /\ chatMounted = FALSE
  /\ timerArmed = FALSE
  /\ pollToken = Null
  /\ messages = <<>>
  /\ newMessage = ""
  /\ fetchReqs = EmptyBag
  /\ sendReqs = EmptyBag

\* ------------------------------------------------------------ AuthProvider

\* useEffect(() => { if (token) checkAuth() }, [token]) after a render in
\* which token went from old to new, and checkAuth up to its await: GET
\* /users/me with the token of that render.  reqs is checkReqs less the
\* request the running handler has just settled.
TokenEffect(old, new, reqs) ==
  checkReqs' = IF new # old /\ new # Null THEN Put(reqs, [token |-> new]) ELSE reqs

\* logout that forgets localStorage.removeItem('token').
logout_KeepsStorage ==
  /\ UNCHANGED localStorageToken
  /\ token' = Null
  /\ user' = Null
  /\ isAuthenticated' = FALSE

\* logout that forgets setUser(null).
logout_KeepsUser ==
  /\ localStorageToken' = Null
  /\ token' = Null
  /\ UNCHANGED user
  /\ isAuthenticated' = FALSE

logout ==
  /\ localStorageToken' = Null
  /\ token' = Null
  /\ user' = Null
  /\ isAuthenticated' = FALSE

\* A mount effect that returns no cleanup.
ClearInterval_Missing == UNCHANGED timerArmed

\* The cleanup of Chat's mount effect: clearInterval(interval).
ClearInterval == timerArmed' = FALSE

\* Chat unmounts: the cleanup runs and the component's state is gone.  The
\* continuations of what it has in flight can only set the state of a
\* component that no longer exists, so they are followed no further (a
\* POST on its way may still be stored: OtherPost).
ChatUnmounts ==
  /\ chatMounted' = FALSE
  /\ ClearInterval
  /\ pollToken' = Null
  /\ messages' = <<>>
  /\ newMessage' = ""
  /\ fetchReqs' = EmptyBag
  /\ sendReqs' = EmptyBag

\* A valid session: marked authenticated, with a token.
SessionValid == isAuthenticated /\ token # Null

\* The application shell around AuthProvider and Chat: the chat view is
\* shown only to a valid session (start only if a valid Session exists) ...
RouteAllowsChat == SessionValid

\* ... and is taken down when the session ends (stop on logout or session
\* invalidation).
StopOnLogout ==
  IF chatMounted THEN ChatUnmounts
  ELSE UNCHANGED <<chatVars, fetchReqs, sendReqs>>

\* login up to its await: POST /token with the form data.
LoginCall(u, p) ==
  /\ InFlight < MaxInFlight
  /\ loginReqs' = Put(loginReqs, [username |-> u, password |-> p])
  /\ UNCHANGED <<authVars, loginResult, checkReqs, validTokens, serverLog,
                 chatVars, fetchReqs, sendReqs>>

\* login that forgets localStorage.setItem('token', access_token).
LoginOk_NoStore(r) ==
  /\ r \in BagToSet(loginReqs)
  /\ CredentialsOk(r.username, r.password)
  /\ LET access_token == IssuedToken(r.username) IN
       /\ validTokens' = validTokens \cup {access_token}
       /\ UNCHANGED localStorageToken
       /\ token' = access_token
       /\ isAuthenticated' = TRUE
       /\ TokenEffect(token, access_token, checkReqs)
  /\ loginResult' = "true"
  /\ loginReqs' = Take(loginReqs, r)
  /\ UNCHANGED <<user, serverLog, chatVars, fetchReqs, sendReqs>>

\* login after the await, the request having succeeded.
LoginOk(r) ==
  /\ r \in BagToSet(loginReqs)
  /\ CredentialsOk(r.username, r.password)
  /\ LET access_token == IssuedToken(r.username) IN
       /\ validTokens' = validTokens \cup {access_token}
       /\ localStorageToken' = access_token
       /\ token' = access_token
       /\ isAuthenticated' = TRUE
       /\ TokenEffect(token, access_token, checkReqs)
  /\ loginResult' = "true"
  /\ loginReqs' = Take(loginReqs, r)
  /\ UNCHANGED <<user, serverLog, chatVars, fetchReqs, sendReqs>>

\* A catch that cleans the session up before it returns false.
LoginCatch_ClearsSession(r) ==
  /\ logout
  /\ loginResult' = "false"
  /\ loginReqs' = Take(loginReqs, r)
  /\ UNCHANGED <<checkReqs, validTokens, serverLog, chatVars, fetchReqs, sendReqs>>

\* login's catch: console.error and return false.
LoginCatch(r) ==
  /\ loginResult' = "false"
  /\ loginReqs' = Take(loginReqs, r)
  /\ UNCHANGED <<authVars, checkReqs, validTokens, serverLog, chatVars,
                 fetchReqs, sendReqs>>

\* POST /token answered non-2xx: the credentials are wrong.
LoginRejected(r) ==
  /\ r \in BagToSet(loginReqs)
  /\ ~CredentialsOk(r.username, r.password)
  /\ LoginCatch(r)

\* POST /token lost or timed out.
LoginNetFail(r) ==
  /\ r \in BagToSet(loginReqs)
  /\ LoginCatch(r)

\* checkAuth that marks the session authenticated without setUser.
CheckAuthOk_NoUser(r) ==
  /\ r \in BagToSet(checkReqs)
  /\ r.token \in validTokens
  /\ isAuthenticated' = TRUE
  /\ checkReqs' = Take(checkReqs, r)
  /\ UNCHANGED <<localStorageToken, token, user, loginResult, loginReqs, validTokens,
                 serverLog, chatVars, fetchReqs, sendReqs>>

\* checkAuth after the await, the service having accepted the token.
CheckAuthOk(r) ==
  /\ r \in BagToSet(checkReqs)
  /\ r.token \in validTokens
  /\ user' = Identity(r.token)
  /\ isAuthenticated' = TRUE
  /\ checkReqs' = Take(checkReqs, r)
  /\ UNCHANGED <<localStorageToken, token, loginResult, loginReqs, validTokens,
                 serverLog, chatVars, fetchReqs, sendReqs>>

\* checkAuth's catch: logout(), whatever the error was.
CheckAuthCatch(r) ==
  /\ logout
  /\ TokenEffect(token, Null, Take(checkReqs, r))
  /\ StopOnLogout
  /\ UNCHANGED <<loginResult, loginReqs, validTokens, serverLog>>

\* GET /users/me answered 401.
CheckAuthRejected(r) ==
  /\ r \in BagToSet(checkReqs)
  /\ r.token \notin validTokens
  /\ CheckAuthCatch(r)

\* GET /users/me lost or timed out.
CheckAuthNetFail(r) ==
  /\ r \in BagToSet(checkReqs)
  /\ CheckAuthCatch(r)

\* The page is loaded again: localStorage is kept, every component state is
\* initialised anew and the effect on [token] runs for the first render.
\* What the old page had in flight has nobody to answer to.
Restart ==
  /\ UNCHANGED localStorageToken
  /\ token' = localStorageToken
  /\ isAuthenticated' = FALSE
  /\ user' = Null
  /\ TokenEffect(Null, localStorageToken, EmptyBag)
  /\ loginResult' = "none"
  /\ loginReqs' = EmptyBag
  /\ chatMounted' = FALSE
  /\ timerArmed' = FALSE
  /\ pollToken' = Null
  /\ messages' = <<>>
  /\ newMessage' = ""
  /\ fetchReqs' = EmptyBag
  /\ sendReqs' = EmptyBag
  /\ UNCHANGED <<validTokens, serverLog>>

\* The service stops accepting a token (it expires or is revoked).
ServerExpire(t) ==
  /\ t \in validTokens
  /\ validTokens' = validTokens \ {t}
  /\ UNCHANGED <<authVars, loginResult, loginReqs, checkReqs, serverLog,
                 chatVars, fetchReqs, sendReqs>>

\* -------------------------------------------------------------------- Chat

\* fetchMessages up to its await: GET /messages/ with the token its closure
\* holds.
fetchMessages(tok) ==
  fetchReqs' = Put(fetchReqs, [token |-> tok, st |-> "sent", data |-> <<>>])

\* Chat mounts: fresh state, and the mount effect calls fetchMessages and
\* arms the interval with the fetchMessages of this first render.
ChatMount ==
  /\ ~chatMounted
  /\ RouteAllowsChat
  /\ InFlight < MaxInFlight
  /\ chatMounted' = TRUE
  /\ messages' = <<>>
  /\ newMessage' = ""
  /\ fetchMessages(token)
  /\ timerArmed' = TRUE
  /\ pollToken' = token
  /\ UNCHANGED <<authVars, loginResult, loginReqs, checkReqs, validTokens,
                 serverLog, sendReqs>>

\* The user leaves the chat view.
ChatLeave ==
  /\ chatMounted
  /\ ChatUnmounts
  /\ UNCHANGED <<authVars, loginResult, loginReqs, checkReqs, validTokens, serverLog>>

\* The interval fires.
Tick ==
  /\ timerArmed
  /\ InFlight < MaxInFlight
  /\ fetchMessages(pollToken)
  /\ UNCHANGED <<authVars, loginResult, loginReqs, checkReqs, validTokens,
                 serverLog, chatVars, sendReqs>>

\* The service answers a GET /messages/ whose token it accepts with the
\* messages it has stored; the answer is on its way back.
ServerFetch(r) ==
  /\ r \in BagToSet(fetchReqs)
  /\ r.st = "sent"
  /\ r.token \in validTokens
  /\ fetchReqs' = Put(Take(fetchReqs, r), [r EXCEPT !.st = "ok", !.data = serverLog])
  /\ UNCHANGED <<authVars, loginResult, loginReqs, checkReqs, validTokens,
                 serverLog, chatVars, sendReqs>>

\* A setMessages that appends the response to what is shown.
setMessages_Append(prev, data) == prev \o data

\* setMessages(response.data): the response replaces what is shown.
setMessages(prev, data) == data

\* fetchMessages after the await: setMessages(response.data).
FetchOk(r) ==
  /\ r \in BagToSet(fetchReqs)
  /\ r.st = "ok"
  /\ messages' = setMessages(messages, r.data)
  /\ fetchReqs' = Take(fetchReqs, r)
  /\ UNCHANGED <<authVars, loginResult, loginReqs, checkReqs, validTokens,
                 serverLog, chatMounted, timerArmed, pollToken, newMessage, sendReqs>>

\* A catch that gives polling up.
FetchCatch_StopsPolling(r) ==
  /\ fetchReqs' = Take(fetchReqs, r)
  /\ timerArmed' = FALSE
  /\ UNCHANGED <<authVars, loginResult, loginReqs, checkReqs, validTokens,
                 serverLog, chatMounted, pollToken, messages, newMessage, sendReqs>>

\* fetchMessages' catch: console.error.
FetchCatch(r) ==
  /\ fetchReqs' = Take(fetchReqs, r)
  /\ UNCHANGED <<authVars, loginResult, loginReqs, checkReqs, validTokens,
                 serverLog, chatVars, sendReqs>>

\* GET /messages/ answered 401.
FetchRejected(r) ==
  /\ r \in BagToSet(fetchReqs)
  /\ r.st = "sent"
  /\ r.token \notin validTokens
  /\ FetchCatch(r)

\* GET /messages/ or its answer lost or timed out.
FetchNetFail(r) ==
  /\ r \in BagToSet(fetchReqs)
  /\ FetchCatch(r)

\* onChange of the text field.
SetNewMessage(c) ==
  /\ chatMounted
  /\ c # newMessage
  /\ newMessage' = c
  /\ UNCHANGED <<authVars, loginResult, loginReqs, checkReqs, validTokens,
                 serverLog, chatMounted, timerArmed, pollToken, messages,
                 fetchReqs, sendReqs>>

\* handleSend that tests newMessage without trim().
handleSend_NoTrim ==
  /\ chatMounted
  /\ IF newMessage = "" \/ user = Null
     THEN UNCHANGED sendReqs
     ELSE /\ InFlight < MaxInFlight
          /\ sendReqs' = Put(sendReqs, [content |-> newMessage, sender |-> user,
                                        token |-> token])
  /\ UNCHANGED <<authVars, loginResult, loginReqs, checkReqs, validTokens,
                 serverLog, chatVars, fetchReqs>>

\* handleSend up to its await.  A blank text returns at once; reading
\* user.username of a null user throws inside the try and is caught and
\* logged; otherwise POST /messages/ goes out with the text, the user and
\* the token of the current render.
handleSend ==
  /\ chatMounted
  /\ IF Trim(newMessage) = "" \/ user = Null
     THEN UNCHANGED sendReqs
     ELSE /\ InFlight < MaxInFlight
          /\ sendReqs' = Put(sendReqs, [content |-> newMessage, sender |-> user,
                                        token |-> token])
  /\ UNCHANGED <<authVars, loginResult, loginReqs, checkReqs, validTokens,
                 serverLog, chatVars, fetchReqs>>

\* The service stores a posted message.
Stored(r) ==
  Append(serverLog, [sender |-> r.sender, content |-> r.content,
                     timestamp |-> Len(serverLog) + 1])

\* Another client of the service posts a message.
OtherPost(u, c) ==
  /\ Len(serverLog) < MaxLog
  /\ Trim(c) # ""
  /\ serverLog' = Stored([sender |-> u, content |-> c])
  /\ UNCHANGED <<authVars, loginResult, loginReqs, checkReqs, validTokens,
                 chatVars, fetchReqs, sendReqs>>

\* handleSend after the await, the POST having succeeded:
\* setNewMessage('') and fetchMessages() of the render that sent.
SendOk(r) ==
  /\ r \in BagToSet(sendReqs)
  /\ r.token \in validTokens
  /\ Len(serverLog) < MaxLog
  /\ serverLog' = Stored(r)
  /\ sendReqs' = Take(sendReqs, r)
  /\ newMessage' = ""
  /\ fetchMessages(r.token)
  /\ UNCHANGED <<authVars, loginResult, loginReqs, checkReqs, validTokens,
                 chatMounted, timerArmed, pollToken, messages>>

\* handleSend's catch: console.error.
SendCatch(r) ==
  /\ sendReqs' = Take(sendReqs, r)
  /\ UNCHANGED <<authVars, loginResult, loginReqs, checkReqs, validTokens,
                 chatVars, fetchReqs>>

\* POST /messages/ answered 401.
SendRejected(r) ==
  /\ r \in BagToSet(sendReqs)
  /\ r.token \notin validTokens
  /\ UNCHANGED serverLog
  /\ SendCatch(r)

\* POST /messages/ lost or timed out: on the way there, or on the way back
\* with the message stored.
SendNetFail(r) ==
  /\ r \in BagToSet(sendReqs)
  /\ \/ UNCHANGED serverLog
     \/ /\ r.token \in validTokens
        /\ Len(serverLog) < MaxLog
        /\ serverLog' = Stored(r)
  /\ SendCatch(r)

\* handleLogout: logout() and navigate('/login').
handleLogout ==
  /\ chatMounted
  /\ logout
  /\ TokenEffect(token, Null, checkReqs)
  /\ ChatUnmounts
  /\ UNCHANGED <<loginResult, loginReqs, validTokens, serverLog>>

\* ------------------------------------------------------------ specification
Next ==
  \/ \E u \in Usernames, p \in Passwords : LoginCall(u, p)
  \/ \E r \in BagToSet(loginReqs) : LoginOk(r)
  \/ \E r \in BagToSet(loginReqs) : LoginRejected(r)
  \/ \E r \in BagToSet(loginReqs) : LoginNetFail(r)
  \/ \E r \in BagToSet(checkReqs) : CheckAuthOk(r)
  \/ \E r \in BagToSet(checkReqs) : CheckAuthRejected(r)
  \/ \E r \in BagToSet(checkReqs) : CheckAuthNetFail(r)
  \/ Restart
  \/ \E t \in Tokens : ServerExpire(t)
  \/ ChatMount
  \/ ChatLeave
  \/ Tick
  \/ \E r \in BagToSet(fetchReqs) : ServerFetch(r)
  \/ \E r \in BagToSet(fetchReqs) : FetchOk(r)
  \/ \E r \in BagToSet(fetchReqs) : FetchRejected(r)
  \/ \E r \in BagToSet(fetchReqs) : FetchNetFail(r)
  \/ \E c \in Text : SetNewMessage(c)
  \/ handleSend
  \/ \E r \in BagToSet(sendReqs) : SendOk(r)
  \/ \E r \in BagToSet(sendReqs) : SendRejected(r)
  \/ \E r \in BagToSet(sendReqs) : SendNetFail(r)
  \/ handleLogout
  \/ \E u \in Usernames, c \in Text : OtherPost(u, c)

Spec == Init /\ [][Next]_vars

\* The page alone with the service between two ticks of the interval: no
\* tick fires and no other client posts.
QuietNext ==
  \/ \E u \in Usernames, p \in Passwords : LoginCall(u, p)
  \/ \E r \in BagToSet(loginReqs) : LoginOk(r)
  \/ \E r \in BagToSet(loginReqs) : LoginRejected(r)
  \/ \E r \in BagToSet(loginReqs) : LoginNetFail(r)
  \/ \E r \in BagToSet(checkReqs) : CheckAuthOk(r)
  \/ \E r \in BagToSet(checkReqs) : CheckAuthRejected(r)
  \/ \E r \in BagToSet(checkReqs) : CheckAuthNetFail(r)
  \/ Restart
  \/ \E t \in Tokens : ServerExpire(t)
  \/ ChatMount
  \/ ChatLeave
  \/ \E r \in BagToSet(fetchReqs) : ServerFetch(r)
  \/ \E r \in BagToSet(fetchReqs) : FetchOk(r)
  \/ \E r \in BagToSet(fetchReqs) : FetchRejected(r)
  \/ \E r \in BagToSet(fetchReqs) : FetchNetFail(r)
  \/ \E c \in Text : SetNewMessage(c)
  \/ handleSend
  \/ \E r \in BagToSet(sendReqs) : SendOk(r)
  \/ \E r \in BagToSet(sendReqs) : SendRejected(r)
  \/ \E r \in BagToSet(sendReqs) : SendNetFail(r)
  \/ handleLogout

QuietSpec == Init /\ [][QuietNext]_vars

\* ------------------------------------------------------------------ claims

\* C1: the chat view never has two GET /messages/ requests in flight at once.
C1_SinglePollInFlight == BagCardinality(fetchReqs) <= 1

\* A login request r settles in this step: login returns.
LoginSettles(r) ==
  /\ r \in BagToSet(loginReqs)
  /\ loginReqs' = Take(loginReqs, r)
  /\ loginResult' # "none"

\* C2: a login that fails (the credentials are wrong, or the request is
\* lost) reports the failure to its caller and leaves the durable token,
\* the in-memory token, the user and the authenticated flag as they were;
\* so does the call of login itself.
C2_FailedLoginKeepsSession ==
  [][ /\ \A r \in BagToSet(loginReqs) :
           LoginSettles(r) =>
             /\ ~CredentialsOk(r.username, r.password) => loginResult' = "false"
             /\ loginResult' = "false" => UNCHANGED authVars
      /\ BagCardinality(loginReqs') > BagCardinality(loginReqs) => UNCHANGED authVars
    ]_vars

\* A login has failed while a session was active, and the session is intact.
C2_Witness ==
  /\ loginResult = "false"
  /\ isAuthenticated
  /\ token \in Tokens
  /\ localStorageToken = token
  /\ user # Null

\* A step that calls logout(): handleLogout, or the catch of checkAuth.
LogoutStep ==
  \/ handleLogout
  \/ \E r \in BagToSet(checkReqs) : CheckAuthRejected(r) \/ CheckAuthNetFail(r)

\* A step that puts a new GET /users/me in flight.
ValidateIssued ==
  \E r \in BagToSet(checkReqs') : CopiesIn(r, checkReqs') > CopiesIn(r, checkReqs)

\* C3: logout leaves no token in localStorage or in memory and issues no
\* validation, and while no token is stored no validation is issued (nor
\* does the next page load issue one or come up authenticated) unless a
\* login succeeds.
C3_NoTokenAfterLogout ==
  [][ /\ LogoutStep =>
           /\ localStorageToken' = Null
           /\ token' = Null
           /\ ~isAuthenticated'
           /\ ~ValidateIssued
      /\ (localStorageToken = Null /\ ValidateIssued) =>
           /\ loginResult' = "true"
           /\ localStorageToken' \in Tokens
      /\ (localStorageToken = Null /\ Restart) =>
           /\ token' = Null
           /\ ~isAuthenticated'
           /\ checkReqs' = EmptyBag
    ]_vars

\* A session that was logged in has been logged out: nothing is stored, no
\* validation is under way.
C3_Witness ==
  /\ loginResult = "true"
  /\ localStorageToken = Null
  /\ token = Null
  /\ ~isAuthenticated
  /\ checkReqs = EmptyBag

\* C4: a validate, poll or send that is lost or times out leaves the
\* token, the user and the authenticated flag unchanged.
C4_TransientFailureKeepsSession ==
  [][ /\ \A r \in BagToSet(checkReqs) :
           (r.token \in validTokens /\ CheckAuthNetFail(r)) => UNCHANGED authVars
      /\ \A r \in BagToSet(fetchReqs) : FetchNetFail(r) => UNCHANGED authVars
      /\ \A r \in BagToSet(sendReqs) : SendNetFail(r) => UNCHANGED authVars
    ]_vars

\* C5: a poll answered 401 logs the session out and stops the timer.
C5_RejectedPollLogsOut ==
  [][ \A r \in BagToSet(fetchReqs) :
        FetchRejected(r) =>
          /\ localStorageToken' = Null
          /\ token' = Null
          /\ user' = Null
          /\ ~isAuthenticated'
          /\ ~timerArmed'
    ]_vars

\* C6: the answer to a fetch sent with another token than the session's
\* current one (the session has changed since) is not applied to messages.
C6_StaleFetchDiscarded ==
  [][ \A r \in BagToSet(fetchReqs) :
        (FetchOk(r) /\ r.token # token) => messages' = messages
    ]_vars

C8_PendingVisible ==
  \A r \in BagToSet(sendReqs) :
    \E i \in DOMAIN messages :
      messages[i].content = r.content /\ messages[i].sender = r.sender

\* C9: after a send is lost or times out, the conversation shows an entry
\* for it.
C9_FailedSendVisible ==
  [][ \A r \in BagToSet(sendReqs) :
        SendNetFail(r) =>
          \E i \in DOMAIN messages' :
            messages'[i].content = r.content /\ messages'[i].sender = r.sender
    ]_vars

\* C10: a page load with a stored token validates it at once, without
\* login, and a session that is authenticated with no login settled since
\* the page load carries the stored token and the identity the service
\* gives for it.
C10_ResumeAfterRestart ==
  [][ /\ (Restart /\ localStorageToken # Null) =>
           /\ token' = localStorageToken
           /\ checkReqs' = SetToBag({[token |-> localStorageToken]})
           /\ loginReqs' = EmptyBag
      /\ (loginResult' = "none" /\ isAuthenticated') =>
           /\ token' \in Tokens
           /\ token' = localStorageToken'
           /\ user' = Identity(token')
    ]_vars

\* The session has been resumed from the stored token: authenticated, with
\* the identity of the token, and no login has settled since the page load.
C10_Witness ==
  /\ loginResult = "none"
  /\ loginReqs = EmptyBag
  /\ isAuthenticated
  /\ token \in Tokens
  /\ user = Identity(token)

\* C11: a send of an empty or whitespace-only text changes nothing (no
\* POST, no refresh, the conversation and the composed text as they were),
\* and no POST /messages/ is ever in flight with a blank content.
C11_BlankSendNoEffect ==
  [][ /\ (handleSend /\ Trim(newMessage) = "") =>
           UNCHANGED <<sendReqs, fetchReqs, messages, newMessage, serverLog>>
      /\ \A r \in BagToSet(sendReqs') : Trim(r.content) # ""
    ]_vars

\* A whitespace-only text is composed and could be submitted; nothing has
\* been posted.
C11_Witness ==
  /\ chatMounted
  /\ newMessage = " "
  /\ user # Null
  /\ InFlight < MaxInFlight
  /\ sendReqs = EmptyBag

\* No session: nothing stored, no token, no user, not authenticated.
LoggedOut ==
  /\ localStorageToken = Null
  /\ token = Null
  /\ user = Null
  /\ ~isAuthenticated

\* C12: every logout ends in the same state (no stored token, no token, no
\* user, not authenticated), and a logout with no active session leaves
\* these four unchanged.
C12_LogoutIdempotent ==
  [][ LogoutStep =>
        /\ LoggedOut'
        /\ LoggedOut => UNCHANGED authVars
    ]_vars

\* Logged out, with a validation still in flight whose catch will call
\* logout once more.
C12_Witness ==
  /\ LoggedOut
  /\ loginResult = "true"
  /\ checkReqs # EmptyBag

\* C13: applying a server response to the conversation it has just produced
\* yields that conversation again.
C13_ReplaceIdempotent ==
  [][ \A r \in BagToSet(fetchReqs) :
        FetchOk(r) => setMessages(messages', r.data) = messages'
    ]_vars

\* The conversation shows a response, and the same non-empty response is
\* about to be applied again.
C13_Witness ==
  /\ messages # <<>>
  /\ \E r \in BagToSet(fetchReqs) : r.st = "ok" /\ r.data = messages

\* C14: a poll that is lost or times out leaves the conversation and the
\* session as they were and the timer armed, with room for the next tick to
\* issue a new fetch.
C14_TransientPollFailureKeepsPolling ==
  [][ \A r \in BagToSet(fetchReqs) :
        FetchNetFail(r) =>
          /\ messages' = messages
          /\ UNCHANGED authVars
          /\ chatMounted'
          /\ timerArmed'
          /\ InFlight' < MaxInFlight
          /\ pollToken' = pollToken
    ]_vars

\* A conversation is shown, the timer is armed and a poll is in flight.
C14_Witness ==
  /\ timerArmed
  /\ messages # <<>>
  /\ \E r \in BagToSet(fetchReqs) : r.st = "sent"

\* C16: the token in localStorage equals the token in memory.
C16_StoredTokenIsSessionToken == localStorageToken = token

\* A login has stored its token.
C16_Witness ==
  /\ loginResult = "true"
  /\ localStorageToken \in Tokens
  /\ localStorageToken = token

\* C15: with no tick and no other client, every message in the log was
\* posted from this page and is shown only by the refresh that follows its
\* POST; once shown it stays shown for as long as the chat view is mounted.
C15_SentMessageStaysVisible ==
  [][ chatMounted' =>
        \A i \in DOMAIN messages :
          \E j \in DOMAIN messages' : messages'[j] = messages[i]
    ]_vars

\* C17: a session marked authenticated has a token.
C17_AuthenticatedHasToken == isAuthenticated => token # Null

\* C18: a session marked authenticated has a user.
C18_AuthenticatedHasUser == isAuthenticated => user # Null

\* C19: the conversation a fetch response produces contains every message
\* of the conversation it replaces (the service's log being append-only).
C19_NoRegression ==
  [][ \A r \in BagToSet(fetchReqs) :
        FetchOk(r) =>
          \A i \in DOMAIN messages :
            \E j \in DOMAIN messages' : messages'[j] = messages[i]
    ]_vars

\* C20: every GET /messages/ put in flight carries the session's token of
\* that moment.
C20_PollUsesCurrentToken ==
  [][ \A r \in BagToSet(fetchReqs') :
        (r.st = "sent" /\ CopiesIn(r, fetchReqs') > CopiesIn(r, fetchReqs)) =>
          r.token = token
    ]_vars

====
